---- MODULE Spec2Model ----
(***************************************************************************)
(* Playthrough / collection lifecycle and bulk-mutation engine of the      *)
(* backlog API (src/api/app).  The HTTP handlers mounted by app/main.py    *)
(* are the ones in app/routers; every handler is one action.               *)
(*                                                                         *)
(* Encoding of Python values: an Optional value is a sequence of length    *)
(* at most one (None is <<>>, a value v is <<v>>); datetimes are naturals  *)
(* (the instant counter `clock` for datetime.now, CallerTime for a value   *)
(* sent by the caller); hours are integers.  A request body is a function  *)
(* whose DOMAIN is the set of fields the caller sent.                      *)
(***************************************************************************)
EXTENDS Integers, Sequences, FiniteSets, TLC

VARIABLES pts, items, nextId, clock, last, flight, probe, sessions, issued,
          race, credited

vars ==
  <<pts, items, nextId, clock, last, flight, probe, sessions, issued, race,
    credited>>

----------------------------------------------------------------------------
(* Bounds *)

MaxPt == 2

MaxClock == 4

MaxIds == 3

----------------------------------------------------------------------------
(* Values *)

None == <<>>

Some(v) == <<v>>

Users == {"user-1", "user-2"}

PlaythroughStatus ==
  {"PLANNING", "PLAYING", "COMPLETED", "DROPPED", "ON_HOLD", "MASTERED"}

CompletionType == {"COMPLETED", "MASTERED", "DROPPED", "ON_HOLD"}

BulkAction == {"update_status", "update_platform", "add_time", "delete"}

CallerTime == 9

\* Identifiers a request can name: those Create hands out, and one more that
\* never exists.
PtIds == 1 .. (MaxPt + 1)

----------------------------------------------------------------------------
(* Transition table *)

\* Variant: a planned playthrough may be completed outright.
valid_transitions_from_planning ==
  [s \in PlaythroughStatus |->
     CASE s = "PLANNING"  -> {"PLAYING", "DROPPED", "COMPLETED", "MASTERED"}
       [] s = "PLAYING"   -> {"COMPLETED", "DROPPED", "ON_HOLD", "MASTERED"}
       [] s = "ON_HOLD"   -> {"PLAYING", "DROPPED", "COMPLETED", "MASTERED"}
       [] s = "COMPLETED" -> {"MASTERED"}
       [] s = "DROPPED"   -> {"PLANNING", "PLAYING"}
       [] s = "MASTERED"  -> {}]

valid_transitions ==
  [s \in PlaythroughStatus |->
     CASE s = "PLANNING"  -> {"PLAYING", "DROPPED"}
       [] s = "PLAYING"   -> {"COMPLETED", "DROPPED", "ON_HOLD", "MASTERED"}
       [] s = "ON_HOLD"   -> {"PLAYING", "DROPPED", "COMPLETED", "MASTERED"}
       [] s = "COMPLETED" -> {"MASTERED"}
       [] s = "DROPPED"   -> {"PLANNING", "PLAYING"}
       [] s = "MASTERED"  -> {}]

\* Variant: the table is consulted but an unlisted edge is let through from
\* COMPLETED (the "restart" edges copied one row too far).
is_valid_status_transition_restart(from_status, to_status) ==
  IF from_status = to_status
    THEN TRUE
    ELSE /\ from_status # None
         /\ to_status # None
         /\ from_status[1] \in DOMAIN valid_transitions
         /\ \/ to_status[1] \in valid_transitions[from_status[1]]
            \/ from_status[1] = "COMPLETED" /\ to_status[1] = "PLAYING"

\* from_status and to_status are Optional strings (None for a JSON null).
is_valid_status_transition(from_status, to_status) ==
  IF from_status = to_status
    THEN TRUE
    ELSE /\ from_status # None
         /\ to_status # None
         /\ from_status[1] \in DOMAIN valid_transitions
         /\ to_status[1] \in valid_transitions[from_status[1]]

svc_valid_transitions ==
  [s \in PlaythroughStatus |->
     CASE s = "PLANNING"  -> {"PLAYING", "DROPPED"}
       [] s = "PLAYING"   -> {"COMPLETED", "DROPPED", "ON_HOLD", "MASTERED"}
       [] s = "ON_HOLD"   -> {"PLAYING", "DROPPED", "COMPLETED", "MASTERED"}
       [] s = "COMPLETED" -> {"MASTERED"}
       [] s = "DROPPED"   -> {"PLANNING", "PLAYING"}
       [] s = "MASTERED"  -> {}]

svc_is_valid_status_transition(from_status, to_status) ==
  IF from_status = to_status
    THEN TRUE
    ELSE /\ from_status # None
         /\ to_status # None
         /\ from_status[1] \in DOMAIN svc_valid_transitions
         /\ to_status[1] \in svc_valid_transitions[from_status[1]]

----------------------------------------------------------------------------
(* Record store *)

\* Variant: the two columns are nullable.
NotNullOk_nullable(r) == TRUE

\* The NOT NULL columns of the playthroughs table that a handler can write.
NotNullOk(r) == r.status # None /\ r.platform # None

\* Variant: the row is looked up by its id alone.
Owned_by_anyone(store, u, pid) == pid \in DOMAIN store

\* db.query(Playthrough).filter(id == pid, user_id == u).first(), and the
\* same filter on CollectionItem.
Owned(store, u, pid) == pid \in DOMAIN store /\ store[pid].user_id = u

NoLast == [op |-> "none", changed |-> TRUE]

NoProbe == [done |-> FALSE]

NoFlight == [active |-> FALSE, acc |-> [ok |-> <<>>]]

\* The server processes that handle requests at the same time.
Workers == {1, 2}

Idle == [phase |-> "idle"]

NoRace == [w \in Workers |-> Idle]

\* Hours that answered add_time requests reported as added, per playthrough.
NoCredit == [pid \in PtIds |-> 0]

----------------------------------------------------------------------------
(* Request bodies *)

Games == {"game-1", "game-2"}

OptTimes == {None, Some(CallerTime)}

\* PlaythroughCreate bodies that pass the schema (status is required).
CreateReqs ==
  [game_id : {"game-1"}, collection_id : {None},
   status : PlaythroughStatus, platform : {"PC"},
   started_at : OptTimes, completed_at : OptTimes,
   play_time_hours : {None}]

UpdateFields ==
  {"status", "platform", "started_at", "completed_at", "play_time_hours"}

\* PlaythroughUpdate bodies that pass the schema: any subset of the fields,
\* each one null or a value of its type (play_time_hours >= 0).
UpdateValues ==
  [status : {None} \cup {Some(s) : s \in PlaythroughStatus},
   platform : {None, Some("PS5")},
   started_at : OptTimes, completed_at : OptTimes,
   play_time_hours : {None, Some(4)}]

UpdateReqs == {[f \in F |-> v[f]] : F \in SUBSET UpdateFields, v \in UpdateValues}

\* PlaythroughComplete bodies that pass the schema.
CompleteReqs ==
  [completion_type : CompletionType, completed_at : OptTimes,
   final_play_time_hours : {None, Some(7)}]

----------------------------------------------------------------------------
(* Single-item handlers (app/routers/playthroughs.py) *)

\* datetime.now(timezone.utc) of the request being handled.
Now == clock + 1

\* A request is taken while instants remain.  A request that left the store as
\* it was is not followed further: the requests after it would see the very
\* store, clock and identifiers that the requests beside it see.
Accepting == clock < MaxClock /\ last.changed

\* What the request leaves behind: the two tables, and the response in `last`.
Respond(newPts, newItems, resp) ==
  /\ pts' = newPts
  /\ items' = newItems
  /\ clock' = IF newPts = pts /\ newItems = items THEN clock ELSE Now
  /\ last' = resp @@ [pre |-> pts, preItems |-> items,
                      changed |-> (newPts # pts \/ newItems # items)]
  /\ UNCHANGED <<flight, probe, sessions, issued, race, credited>>

create_playthrough(u, req) ==
  /\ Accepting
  /\ nextId <= MaxPt
  /\ LET new == [user_id |-> u, game_id |-> req.game_id,
                 collection_id |-> req.collection_id,
                 status |-> Some(req.status), platform |-> Some(req.platform),
                 started_at |-> req.started_at,
                 completed_at |-> req.completed_at,
                 play_time_hours |-> req.play_time_hours,
                 created_at |-> Some(Now), updated_at |-> Some(Now)]
         resp == [op |-> "create", user |-> u, req |-> req]
     IN  IF req.game_id \notin Games
           THEN /\ Respond(pts, items, resp @@ [code |-> 404, id |-> 0])
                /\ UNCHANGED nextId
         ELSE IF /\ req.collection_id # None
                 /\ ~(/\ req.collection_id[1] \in DOMAIN items
                      /\ items[req.collection_id[1]].user_id = u)
           THEN /\ Respond(pts, items, resp @@ [code |-> 404, id |-> 0])
                /\ UNCHANGED nextId
         ELSE IF /\ req.collection_id # None
                 /\ items[req.collection_id[1]].game_id # req.game_id
           THEN /\ Respond(pts, items, resp @@ [code |-> 400, id |-> 0])
                /\ UNCHANGED nextId
         ELSE /\ Respond(pts @@ (nextId :> new), items,
                         resp @@ [code |-> 201, id |-> nextId])
              /\ nextId' = nextId + 1

get_playthrough_by_id(u, pid) ==
  /\ Accepting
  /\ Respond(pts, items, [op |-> "get", user |-> u, id |-> pid,
                   code |-> IF Owned(pts, u, pid) THEN 200 ELSE 404])
  /\ UNCHANGED nextId

\* Variant: the keys the schema does not declare are kept (extra = "allow").
model_dump_extra_allowed(body) == body

\* PlaythroughUpdate(**body).model_dump(exclude_unset=True): the fields the
\* schema declares among the keys the caller sent; a key it does not declare
\* is dropped when the body is parsed.
model_dump(body) == [f \in DOMAIN body \cap UpdateFields |-> body[f]]

\* Variant: the timestamps are written on every transition into the status,
\* without the `not existing_playthrough.<field>` tests.
UpdateOutcome_clobber(r, req, now) ==
  LET status == IF "status" \in DOMAIN req THEN req.status ELSE None
  IN  IF /\ status # None
         /\ status # r.status
         /\ ~is_valid_status_transition(r.status, status)
        THEN [code |-> 422, rec |-> r, detail |-> <<r.status[1], status[1]>>]
      ELSE
        LET r1 == [f \in DOMAIN r |-> IF f \in DOMAIN req THEN req[f] ELSE r[f]]
            r2 == IF status = Some("PLAYING")
                    THEN [r1 EXCEPT !.started_at = Some(now)]
                    ELSE r1
            r3 == IF status \in {Some("COMPLETED"), Some("MASTERED")}
                    THEN [r2 EXCEPT !.completed_at = Some(now)]
                    ELSE r2
            r4 == [r3 EXCEPT !.updated_at = Some(now)]
        IN  IF NotNullOk(r4)
              THEN [code |-> 200, rec |-> r4, detail |-> <<>>]
              ELSE [code |-> 500, rec |-> r, detail |-> <<>>]

\* Variant: the fields of the body are written before the transition is
\* checked, and the refusal leaves them written.
UpdateOutcome_fields_first(r, req, now) ==
  LET status == IF "status" \in DOMAIN req THEN req.status ELSE None
      r1 == [f \in DOMAIN r |->
               IF f \in DOMAIN req /\ f # "status" THEN req[f] ELSE r[f]]
  IN  IF /\ status # None
         /\ status # r.status
         /\ ~is_valid_status_transition(r.status, status)
        THEN [code |-> 422, rec |-> [r1 EXCEPT !.updated_at = Some(now)],
              detail |-> <<r.status[1], status[1]>>]
      ELSE
        LET r2 == [r1 EXCEPT !.status = IF "status" \in DOMAIN req
                                          THEN req.status ELSE r.status]
            r4 == [r2 EXCEPT !.updated_at = Some(now)]
        IN  IF NotNullOk(r4)
              THEN [code |-> 200, rec |-> r4, detail |-> <<>>]
              ELSE [code |-> 500, rec |-> r, detail |-> <<>>]

\* The record update_playthrough commits for stored record r, or the error.
UpdateOutcome(r, req, now) ==
  LET status == IF "status" \in DOMAIN req THEN req.status ELSE None
  IN  IF /\ status # None
         /\ status # r.status
         /\ ~is_valid_status_transition(r.status, status)
        THEN [code |-> 422, rec |-> r, detail |-> <<r.status[1], status[1]>>]
      ELSE
        LET r1 == [f \in DOMAIN r |-> IF f \in DOMAIN req THEN req[f] ELSE r[f]]
            r2 == IF status = Some("PLAYING") /\ r1.started_at = None
                    THEN [r1 EXCEPT !.started_at = Some(now)]
                    ELSE r1
            r3 == IF /\ status \in {Some("COMPLETED"), Some("MASTERED")}
                     /\ r2.completed_at = None
                    THEN [r2 EXCEPT !.completed_at = Some(now)]
                    ELSE r2
            r4 == [r3 EXCEPT !.updated_at = Some(now)]
        IN  IF NotNullOk(r4)
              THEN [code |-> 200, rec |-> r4, detail |-> <<>>]
              ELSE [code |-> 500, rec |-> r, detail |-> <<>>]

update_playthrough(u, pid, req) ==
  /\ Accepting
  /\ LET resp == [op |-> "update", user |-> u, id |-> pid, req |-> req]
     IN  IF ~Owned(pts, u, pid)
           THEN Respond(pts, items, resp @@ [code |-> 404])
           ELSE LET out == UpdateOutcome(pts[pid], model_dump(req), Now)
                IN  Respond([pts EXCEPT ![pid] = out.rec], items,
                            resp @@ [code |-> out.code, detail |-> out.detail])
  /\ UNCHANGED nextId

\* Variant: the completion timestamp is written for every completion type,
\* ON_HOLD included.
CompleteOutcome_all_types(r, req, now) ==
  LET completion_status == Some(req.completion_type)
  IN  IF r.status \in {Some("COMPLETED"), Some("MASTERED"), Some("DROPPED")}
        THEN [code |-> 409, rec |-> r]
      ELSE IF ~is_valid_status_transition(r.status, completion_status)
        THEN [code |-> 422, rec |-> r]
      ELSE
        LET r1 == [r EXCEPT !.status = completion_status]
            r2 == IF req.completed_at # None
                    THEN [r1 EXCEPT !.completed_at = req.completed_at]
                  ELSE IF r1.completed_at = None
                    THEN [r1 EXCEPT !.completed_at = Some(now)]
                  ELSE r1
            r3 == IF req.final_play_time_hours # None
                    THEN [r2 EXCEPT !.play_time_hours = req.final_play_time_hours]
                    ELSE r2
        IN  [code |-> 200, rec |-> [r3 EXCEPT !.updated_at = Some(now)]]

\* Variant: the transition is checked before the finalization, so a
\* finalized playthrough asked for an illegal edge is answered 422.
CompleteOutcome_transition_first(r, req, now) ==
  LET completion_status == Some(req.completion_type)
  IN  IF ~is_valid_status_transition(r.status, completion_status)
        THEN [code |-> 422, rec |-> r]
      ELSE IF r.status \in {Some("COMPLETED"), Some("MASTERED"), Some("DROPPED")}
        THEN [code |-> 409, rec |-> r]
      ELSE [code |-> 200,
            rec |-> [r EXCEPT !.status = completion_status,
                              !.updated_at = Some(now)]]

\* The record complete_playthrough commits for stored record r, or the error.
CompleteOutcome(r, req, now) ==
  LET completion_status == Some(req.completion_type)
  IN  IF r.status \in {Some("COMPLETED"), Some("MASTERED"), Some("DROPPED")}
        THEN [code |-> 409, rec |-> r]
      ELSE IF ~is_valid_status_transition(r.status, completion_status)
        THEN [code |-> 422, rec |-> r]
      ELSE
        LET r1 == [r EXCEPT !.status = completion_status]
            r2 == IF req.completion_type \in {"COMPLETED", "MASTERED", "DROPPED"}
                    THEN IF req.completed_at # None
                           THEN [r1 EXCEPT !.completed_at = req.completed_at]
                         ELSE IF r1.completed_at = None
                           THEN [r1 EXCEPT !.completed_at = Some(now)]
                         ELSE r1
                    ELSE r1
            r3 == IF req.final_play_time_hours # None
                    THEN [r2 EXCEPT !.play_time_hours = req.final_play_time_hours]
                    ELSE r2
        IN  [code |-> 200, rec |-> [r3 EXCEPT !.updated_at = Some(now)]]

complete_playthrough(u, pid, req) ==
  /\ Accepting
  /\ LET resp == [op |-> "complete", user |-> u, id |-> pid, req |-> req]
     IN  IF ~Owned(pts, u, pid)
           THEN Respond(pts, items, resp @@ [code |-> 404])
           ELSE LET out == CompleteOutcome(pts[pid], req, Now)
                IN  Respond([pts EXCEPT ![pid] = out.rec], items,
                            resp @@ [code |-> out.code])
  /\ UNCHANGED nextId

delete_playthrough(u, pid) ==
  /\ Accepting
  /\ LET resp == [op |-> "delete", user |-> u, id |-> pid]
     IN  IF ~Owned(pts, u, pid)
           THEN Respond(pts, items, resp @@ [code |-> 404])
           ELSE Respond([p \in DOMAIN pts \ {pid} |-> pts[p]], items,
                        resp @@ [code |-> 200])
  /\ UNCHANGED nextId

----------------------------------------------------------------------------
(* Bulk handler (app/routers/playthroughs.py) *)

\* Variant: the schema puts no bound on the length of the list.
Validates_any_length(ids) == TRUE

\* Field(..., min_length=1) on playthrough_ids and on collection_ids: a body
\* that fails it never reaches the handler; the RequestValidationError
\* handler answers 422.
Validates(ids) == Len(ids) >= 1

\* Variant: only a request without any payload is refused.
LacksKey_only_none(data, key) == data = None

\* `not bulk_request.data or key not in bulk_request.data`: data is None or a
\* dict, modelled as None or Some(function from its keys).
LacksKey(data, key) ==
  \/ data = None
  \/ DOMAIN data[1] = {}
  \/ key \notin DOMAIN data[1]

RequiredKey(action) ==
  CASE action = "update_status"   -> Some("status")
    [] action = "update_platform" -> Some("platform")
    [] action = "add_time"        -> Some("hours")
    [] OTHER                      -> None

\* A JSON value of the hours key is null (None) or Some(j) with j a number
\* or a string; only a number can be added to the stored hours.
Num(n) == [num |-> TRUE, n |-> n]

Str == [num |-> FALSE, n |-> 0]

IsNumber(v) == v # None /\ v[1].num

\* The session of one bulk request: the objects loaded so far with their
\* pending attribute writes, the objects marked for deletion, and the two
\* result lists.  Nothing reaches the store before the commit.
EmptySession ==
  [obj |-> <<>>, del |-> {}, ok |-> <<>>, items |-> <<>>, failed |-> <<>>]

\* The object a query returns: the one already in the session's identity map,
\* else a fresh load of the stored row.
Loaded(acc, store, pid) ==
  IF pid \in DOMAIN acc.obj THEN acc.obj[pid] ELSE store[pid]

Put(acc, pid, r) ==
  [acc EXCEPT !.obj = [q \in DOMAIN acc.obj \cup {pid} |->
                          IF q = pid THEN r ELSE acc.obj[q]]]

Fail(acc, pid, why) ==
  [acc EXCEPT !.failed = Append(acc.failed, [id |-> pid, error |-> why])]

\* BulkResultItem(id=..., <field>=<value>): the other fields keep None.
ResultItem(pid, field, value) ==
  [[id |-> pid, status |-> None, platform |-> None, play_time_hours |-> None]
     EXCEPT ![field] = value]

\* successful_items.append(item); `ok` keeps the ids of these items.
Ok(acc, pid, item) ==
  [acc EXCEPT !.ok = Append(acc.ok, pid), !.items = Append(acc.items, item)]

\* bulk_request.data[key] raises (TypeError on None, KeyError on a dict
\* without the key); inside the loop the `except Exception` captures it.
Raises(data, key) == data = None \/ key \notin DOMAIN data[1]

\* Variant: the hours of the request replace the stored hours.
NewTime_replace(play_time_hours, hours_to_add) == hours_to_add

\* current_time = existing_playthrough.play_time_hours or 0
\* new_time = current_time + hours_to_add
NewTime(play_time_hours, hours_to_add) ==
  LET current_time == IF play_time_hours = None \/ play_time_hours = Some(0)
                        THEN 0 ELSE play_time_hours[1]
  IN  current_time + hours_to_add

\* One pass of the body of `for playthrough_id in bulk_request.playthrough_ids`.
BulkItem(acc, store, u, action, data, now, pid) ==
  IF ~Owned(store, u, pid)
    THEN Fail(acc, pid, "not found")
  ELSE IF RequiredKey(action) # None /\ Raises(data, RequiredKey(action)[1])
    THEN Fail(acc, pid, "processing error")
  ELSE
    LET existing == Loaded(acc, store, pid)
    IN  CASE action = "update_status" ->
               LET new_status == data[1].status
               IN  IF ~is_valid_status_transition(existing.status, new_status)
                     THEN Fail(acc, pid, "invalid transition")
                   ELSE
                     LET r1 == [existing EXCEPT !.status = new_status]
                         r2 == IF new_status = Some("PLAYING")
                                  /\ r1.started_at = None
                                 THEN [r1 EXCEPT !.started_at = Some(now)]
                               ELSE IF /\ new_status \in {Some("COMPLETED"),
                                                          Some("MASTERED")}
                                       /\ r1.completed_at = None
                                 THEN [r1 EXCEPT !.completed_at = Some(now)]
                               ELSE r1
                         a1 == Put(acc, pid, [r2 EXCEPT !.updated_at = Some(now)])
                     IN  Ok(a1, pid, ResultItem(pid, "status", new_status))
          [] action = "update_platform" ->
               LET a1 == Put(acc, pid, [existing EXCEPT
                                          !.platform = data[1].platform,
                                          !.updated_at = Some(now)])
               IN  Ok(a1, pid, ResultItem(pid, "platform", data[1].platform))
          [] action = "add_time" ->
               LET hours_to_add == data[1].hours
               IN  IF ~IsNumber(hours_to_add)
                     THEN Fail(acc, pid, "processing error")
                   ELSE
                     LET new_time == NewTime(existing.play_time_hours,
                                             hours_to_add[1].n)
                         a1 == Put(acc, pid,
                                   [existing EXCEPT
                                      !.play_time_hours = Some(new_time),
                                      !.updated_at = Some(now)])
                     IN  Ok(a1, pid,
                            ResultItem(pid, "play_time_hours", Some(new_time)))
          [] action = "delete" ->
               Ok([acc EXCEPT !.del = acc.del \cup {pid}], pid,
                  ResultItem(pid, "id", pid))

RECURSIVE BulkLoop(_, _, _, _, _, _, _)
BulkLoop(acc, store, u, action, data, now, ids) ==
  IF ids = <<>>
    THEN acc
    ELSE BulkLoop(BulkItem(acc, store, u, action, data, now, Head(ids)),
                  store, u, action, data, now, Tail(ids))

\* db.commit() at the end of the request: one transaction for the session.
\* It raises when a pending row breaks NOT NULL, and then nothing is stored.
CommitOk(acc) ==
  \A pid \in DOMAIN acc.obj \ acc.del : NotNullOk(acc.obj[pid])

Committed_all_or_nothing(acc, store) ==
  IF acc.failed = <<>>
    THEN [pid \in DOMAIN store \ acc.del |->
            IF pid \in DOMAIN acc.obj THEN acc.obj[pid] ELSE store[pid]]
    ELSE store

Committed(acc, store) ==
  [pid \in DOMAIN store \ acc.del |->
     IF pid \in DOMAIN acc.obj THEN acc.obj[pid] ELSE store[pid]]

\* Variant: failed_count and failed_items are in every response.
ResponseData_both_lists(acc) ==
  [success |-> Len(acc.failed) = 0, updated_count |-> Len(acc.ok),
   items |-> acc.items, failed_count |-> Len(acc.failed),
   failed_items |-> acc.failed]

\* response_data: the body of the 200 or 207.
ResponseData(acc) ==
  LET response_data == [success |-> Len(acc.failed) = 0,
                        updated_count |-> Len(acc.ok), items |-> acc.items]
  IN  IF Len(acc.failed) > 0
        THEN response_data @@ [failed_count |-> Len(acc.failed),
                               failed_items |-> acc.failed]
        ELSE response_data

bulk_playthrough_operations(u, action, ids, data) ==
  /\ Accepting
  /\ LET resp == [op |-> "bulk", user |-> u, action |-> action, ids |-> ids,
                  data |-> data]
         key == RequiredKey(action)
     IN  IF ~Validates(ids)
           THEN Respond(pts, items,
                        resp @@ [code |-> 422, ok |-> <<>>, failed |-> <<>>])
         ELSE IF key # None /\ LacksKey(data, key[1])
           THEN Respond(pts, items,
                        resp @@ [code |-> 400, ok |-> <<>>, failed |-> <<>>])
         ELSE
           LET acc == BulkLoop(EmptySession, pts, u, action, data, Now, ids)
           IN  IF ~CommitOk(acc)
                 THEN Respond(pts, items,
                              resp @@ [code |-> 500, ok |-> <<>>,
                                       failed |-> <<>>])
                 ELSE Respond(Committed(acc, pts), items,
                              resp @@ [code |-> IF Len(acc.failed) = 0
                                                  THEN 200 ELSE 207,
                                       ok |-> acc.ok, failed |-> acc.failed,
                                       body |-> ResponseData(acc)])
  /\ UNCHANGED nextId

----------------------------------------------------------------------------
(* Collection items (app/routers/collection.py) *)

BulkCollectionAction == {"update_priority", "update_platform", "hide", "activate"}

\* Variant: a table without the constraint.
UniqueOk_unconstrained(store) == TRUE

\* UniqueConstraint(user_id, game_id, platform) on collection_items.
UniqueOk(store) ==
  \A a, b \in DOMAIN store :
    (/\ store[a].user_id = store[b].user_id
     /\ store[a].game_id = store[b].game_id
     /\ store[a].platform = store[b].platform) => a = b

create_collection_item(u, req) ==
  /\ Accepting
  /\ nextId <= MaxPt
  /\ LET new == [user_id |-> u, game_id |-> req.game_id,
                 platform |-> req.platform, priority |-> req.priority,
                 is_active |-> TRUE,
                 created_at |-> Some(Now), updated_at |-> Some(Now)]
         resp == [op |-> "item_create", user |-> u, req |-> req]
         added == items @@ (nextId :> new)
     IN  IF req.game_id \notin Games
           THEN /\ Respond(pts, items, resp @@ [code |-> 404, id |-> 0])
                /\ UNCHANGED nextId
         ELSE IF ~UniqueOk(added)
           THEN /\ Respond(pts, items, resp @@ [code |-> 409, id |-> 0])
                /\ nextId' = nextId + 1
         ELSE /\ Respond(pts, added, resp @@ [code |-> 201, id |-> nextId])
              /\ nextId' = nextId + 1

get_collection_item(u, cid) ==
  /\ Accepting
  /\ Respond(pts, items, [op |-> "item_get", user |-> u, id |-> cid,
                          code |-> IF Owned(items, u, cid) THEN 200 ELSE 404])
  /\ UNCHANGED nextId

\* Only the fields that are not None are written; the body with none of
\* them commits nothing.
update_collection_item(u, cid, req) ==
  /\ Accepting
  /\ LET resp == [op |-> "item_update", user |-> u, id |-> cid, req |-> req]
     IN  IF ~Owned(items, u, cid)
           THEN Respond(pts, items, resp @@ [code |-> 404])
         ELSE IF req.priority = None /\ req.is_active = None
           THEN Respond(pts, items, resp @@ [code |-> 200])
         ELSE
           LET r0 == items[cid]
               r1 == IF req.priority # None
                       THEN [r0 EXCEPT !.priority = req.priority] ELSE r0
               r2 == IF req.is_active # None
                       THEN [r1 EXCEPT !.is_active = req.is_active[1]] ELSE r1
           IN  Respond(pts, [items EXCEPT ![cid] =
                                      [r2 EXCEPT !.updated_at = Some(Now)]],
                       resp @@ [code |-> 200])
  /\ UNCHANGED nextId

\* Variant: the hard delete without the count of the playthroughs.
delete_collection_item_unguarded(u, cid, hard_delete) ==
  /\ Accepting
  /\ LET resp == [op |-> "item_delete", user |-> u, id |-> cid,
                  hard |-> hard_delete]
     IN  IF ~Owned(items, u, cid)
           THEN Respond(pts, items, resp @@ [code |-> 404])
         ELSE IF hard_delete
           THEN Respond(pts, [c \in DOMAIN items \ {cid} |-> items[c]],
                        resp @@ [code |-> 200])
         ELSE Respond(pts, [items EXCEPT ![cid] =
                                    [@ EXCEPT !.is_active = FALSE,
                                              !.updated_at = Some(Now)]],
                      resp @@ [code |-> 200])
  /\ UNCHANGED nextId

delete_collection_item(u, cid, hard_delete) ==
  /\ Accepting
  /\ LET resp == [op |-> "item_delete", user |-> u, id |-> cid,
                  hard |-> hard_delete]
         playthrough_count ==
           Cardinality({p \in DOMAIN pts : pts[p].collection_id = Some(cid)})
     IN  IF ~Owned(items, u, cid)
           THEN Respond(pts, items, resp @@ [code |-> 404])
         ELSE IF hard_delete /\ playthrough_count > 0
           THEN Respond(pts, items, resp @@ [code |-> 409])
         ELSE IF hard_delete
           THEN Respond(pts, [c \in DOMAIN items \ {cid} |-> items[c]],
                        resp @@ [code |-> 200])
         ELSE Respond(pts, [items EXCEPT ![cid] =
                                    [@ EXCEPT !.is_active = FALSE,
                                              !.updated_at = Some(Now)]],
                      resp @@ [code |-> 200])
  /\ UNCHANGED nextId

RequiredItemKey(action) ==
  CASE action = "update_priority" -> Some("priority")
    [] action = "update_platform" -> Some("platform")
    [] OTHER                      -> None

Result(st, cid, success, error) ==
  [st EXCEPT !.results = Append(st.results, [id |-> cid, success |-> success,
                                             error |-> error])]

\* One pass of the body of `for collection_id in request.collection_ids`:
\* the change of the item is committed before the next pass, and a commit
\* that raises is rolled back and recorded as the failure of that item.
CollectionItemPass(st, u, action, data, now, cid) ==
  IF ~Owned(st.store, u, cid)
    THEN Result(st, cid, FALSE, "not found")
  ELSE IF /\ RequiredItemKey(action) # None
          /\ Raises(data, RequiredItemKey(action)[1])
    THEN Result(st, cid, FALSE, "processing error")
  ELSE
    LET r0 == st.store[cid]
        Write(r) == [st.store EXCEPT ![cid] = [r EXCEPT !.updated_at = Some(now)]]
        Done(store) ==
          IF UniqueOk(store)
            THEN Result([st EXCEPT !.store = store], cid, TRUE, "")
            ELSE Result(st, cid, FALSE, "integrity error")
    IN  CASE action = "update_priority" ->
               LET priority == data[1].priority
               IN  IF ~(IsNumber(priority) /\ priority[1].n >= 1
                                           /\ priority[1].n <= 5)
                     THEN Result(st, cid, FALSE, "priority")
                     ELSE Done(Write([r0 EXCEPT
                                        !.priority = Some(priority[1].n)]))
          [] action = "update_platform" ->
               LET platform == data[1].platform
               IN  IF platform = None \/ platform = Some("")
                     THEN Result(st, cid, FALSE, "platform")
                     ELSE Done(Write([r0 EXCEPT !.platform = platform[1]]))
          [] action = "hide" -> Done(Write([r0 EXCEPT !.is_active = FALSE]))
          [] action = "activate" -> Done(Write([r0 EXCEPT !.is_active = TRUE]))

RECURSIVE CollectionLoop(_, _, _, _, _, _)
CollectionLoop(st, u, action, data, now, ids) ==
  IF ids = <<>>
    THEN st
    ELSE CollectionLoop(CollectionItemPass(st, u, action, data, now, Head(ids)),
                        u, action, data, now, Tail(ids))

\* Variant: the request counts as successful once any item was updated.
BulkCollectionResponse_any_updated(results, collection_ids) ==
  LET updated_count ==
        Cardinality({i \in DOMAIN results : results[i].success})
      total_count == Len(collection_ids)
      all_successful == updated_count > 0
  IN  [success |-> all_successful, updated_count |-> updated_count,
       total_count |-> total_count, results |-> results]

\* updated_count is incremented beside every result with success = True.
BulkCollectionResponse(results, collection_ids) ==
  LET updated_count ==
        Cardinality({i \in DOMAIN results : results[i].success})
      total_count == Len(collection_ids)
      all_successful == updated_count = total_count
  IN  [success |-> all_successful, updated_count |-> updated_count,
       total_count |-> total_count, results |-> results]

bulk_collection_operations(u, action, ids, data) ==
  /\ Accepting
  /\ LET resp == [op |-> "item_bulk", user |-> u, action |-> action,
                  ids |-> ids, data |-> data]
         key == RequiredItemKey(action)
     IN  IF ~Validates(ids)
           THEN Respond(pts, items, resp @@ [code |-> 422, results |-> <<>>])
         ELSE IF key # None /\ LacksKey(data, key[1])
           THEN Respond(pts, items, resp @@ [code |-> 400, results |-> <<>>])
         ELSE
           LET st == CollectionLoop([store |-> items, results |-> <<>>],
                                    u, action, data, Now, ids)
               response == BulkCollectionResponse(st.results, ids)
           IN  Respond(pts, st.store,
                       resp @@ [code |-> IF response.success
                                           THEN 200 ELSE 207,
                                results |-> st.results,
                                body |-> response])
  /\ UNCHANGED nextId

----------------------------------------------------------------------------
(* Lifecycle specification: one caller, single-item requests and bulk      *)
(* status updates on the playthroughs Create hands out.                    *)

Caller == "user-1"

\* Update bodies that name the columns the schema does not declare, alone
\* and beside a declared field.
ImmutableBodies ==
  {[id |-> MaxPt + 1, user_id |-> "user-2", game_id |-> "game-2",
    created_at |-> Some(CallerTime)],
   [id |-> MaxPt + 1, user_id |-> "user-2", game_id |-> "game-2",
    created_at |-> Some(CallerTime), platform |-> Some("PS5")]}

\* Update bodies of the lifecycle: the status and the two timestamps in any
\* combination, and the bodies that null a NOT NULL column.
LifeUpdateReqs ==
  {r \in UpdateReqs :
     \/ DOMAIN r \subseteq {"status", "started_at", "completed_at"}
     \/ r = [platform |-> None]}
    \cup ImmutableBodies

LifeCreateReqs ==
  {r \in CreateReqs : r.started_at = None /\ r.completed_at = None}

LifeCompleteReqs == {r \in CompleteReqs : r.final_play_time_hours = None}

\* The identifier the one Create of this specification hands out, and one
\* that names nothing.
LifeIds == {MaxPt, MaxPt + 1}

\* Non-empty lists of at most n of the given identifiers.
IdLists(S, n) == UNION {[1 .. k -> S] : k \in 1 .. n}

StatusPayloads ==
  {Some([status |-> v]) :
     v \in {None, Some("BOGUS")} \cup {Some(t) : t \in PlaythroughStatus}}

Init ==
  /\ pts = <<>>
  /\ items = <<>>
  /\ nextId = MaxPt
  /\ clock = 0
  /\ last = NoLast
  /\ flight = NoFlight
  /\ probe = NoProbe
  /\ sessions = <<>>
  /\ issued = <<>>
  /\ race = NoRace
  /\ credited = NoCredit

Next ==
  \/ \E req \in LifeCreateReqs : create_playthrough(Caller, req)
  \/ \E pid \in LifeIds, req \in LifeUpdateReqs :
       update_playthrough(Caller, pid, req)
  \/ \E pid \in LifeIds, req \in LifeCompleteReqs :
       complete_playthrough(Caller, pid, req)
  \/ \E pid \in LifeIds : delete_playthrough(Caller, pid)
  \/ \E ids \in IdLists(LifeIds, 1), data \in StatusPayloads :
       bulk_playthrough_operations(Caller, "update_status", ids, data)

Spec == Init /\ [][Next]_vars

----------------------------------------------------------------------------
(* Bulk specification: two users create playthroughs, the caller sends     *)
(* bulk requests of every action.                                          *)

BulkCreateReqs ==
  {r \in LifeCreateReqs : r.status \in {"PLANNING", "PLAYING", "COMPLETED"}}

\* Payloads of a bulk request: absent, empty, or carrying the key of one
\* action with a well-typed, an ill-typed or a null value.
BulkPayloads ==
  {None, Some(<<>>)}
    \cup {Some([status |-> v]) :
            v \in {None, Some("BOGUS"), Some("PLAYING"), Some("ON_HOLD"),
                   Some("MASTERED")}}
    \cup {Some([platform |-> v]) : v \in {None, Some("PS5")}}
    \cup {Some([hours |-> v]) : v \in {Some(Num(3)), Some(Num(0 - 2)), Some(Str)}}

\* The requests that get past FastAPI's body validation and are not the
\* same request twice: a payload key the action never reads is left out.
BulkRequests ==
  {rq \in [action : BulkAction, data : BulkPayloads] :
     \/ rq.data = None
     \/ rq.data = Some(<<>>) /\ rq.action # "delete"
     \/ /\ rq.data \notin {None, Some(<<>>)}
        /\ RequiredKey(rq.action) # None
        /\ DOMAIN rq.data[1] = {RequiredKey(rq.action)[1]}}

InitBulk ==
  /\ pts = <<>>
  /\ items = <<>>
  /\ nextId = 1
  /\ clock = MaxClock - (MaxPt + 1)
  /\ last = NoLast
  /\ flight = NoFlight
  /\ probe = NoProbe
  /\ sessions = <<>>
  /\ issued = <<>>
  /\ race = NoRace
  /\ credited = NoCredit

NextBulk ==
  \/ \E u \in Users, req \in BulkCreateReqs : create_playthrough(u, req)
  \/ \E rq \in BulkRequests, ids \in IdLists(PtIds, MaxIds) :
       bulk_playthrough_operations(Caller, rq.action, ids, rq.data)

SpecBulk == InitBulk /\ [][NextBulk]_vars

----------------------------------------------------------------------------
(* Commit-boundary specification: the bulk request taken one target at a   *)
(* time, the store visible between the targets.                            *)

BulkBegin(u, action, ids, data) ==
  /\ ~flight.active
  /\ clock < MaxClock
  /\ LET key == RequiredKey(action)
     IN  ~(key # None /\ LacksKey(data, key[1]))
  /\ flight' = [active |-> TRUE, user |-> u, action |-> action, data |-> data,
                ids |-> ids, todo |-> ids, now |-> Now, acc |-> EmptySession]
  /\ UNCHANGED <<pts, items, nextId, clock, last, probe, sessions, issued, race,
               credited>>

\* One pass of the loop body; the router's pass writes to the session only.
BulkStep ==
  /\ flight.active
  /\ flight.todo # <<>>
  /\ flight' = [flight EXCEPT
                  !.acc = BulkItem(flight.acc, pts, flight.user, flight.action,
                                   flight.data, flight.now, Head(flight.todo)),
                  !.todo = Tail(flight.todo)]
  /\ UNCHANGED <<pts, items, nextId, clock, last, probe, sessions, issued, race,
               credited>>

\* db.commit() after the loop.  It raises when a row breaks NOT NULL or when
\* the store fails (storeUp false); the handler then rolls back and answers
\* 500.
BulkCommit(storeUp) ==
  /\ flight.active
  /\ flight.todo = <<>>
  /\ LET acc == flight.acc
         resp == [op |-> "bulk", user |-> flight.user,
                  action |-> flight.action, ids |-> flight.ids,
                  data |-> flight.data, pre |-> pts, preItems |-> items]
     IN  IF storeUp /\ CommitOk(acc)
           THEN /\ pts' = Committed(acc, pts)
                /\ last' = resp @@ [code |-> IF Len(acc.failed) = 0
                                               THEN 200 ELSE 207,
                                    ok |-> acc.ok, failed |-> acc.failed,
                                    body |-> ResponseData(acc),
                                    changed |-> TRUE]
           ELSE /\ pts' = pts
                /\ last' = resp @@ [code |-> 500, ok |-> <<>>,
                                    failed |-> <<>>, changed |-> TRUE]
  /\ clock' = flight.now
  /\ flight' = [active |-> FALSE, acc |-> flight.acc]
  /\ UNCHANGED <<items, nextId, probe, sessions, issued, race, credited>>

StepCreateReqs == {r \in BulkCreateReqs : r.status = "PLAYING"}

StepRequests ==
  {rq \in BulkRequests : rq.data \in {None, Some([status |-> Some("ON_HOLD")]),
                                      Some([platform |-> Some("PS5")]),
                                      Some([hours |-> Some(Num(3))])}}

\* A create is taken between two bulk requests, not inside one.
CreateBetweenRequests(u, req) ==
  /\ ~flight.active
  /\ create_playthrough(u, req)

NextSteps ==
  \/ \E u \in Users, req \in StepCreateReqs :
       CreateBetweenRequests(u, req)
  \/ \E rq \in StepRequests, ids \in IdLists(PtIds, MaxIds) :
       BulkBegin(Caller, rq.action, ids, rq.data)
  \/ BulkStep
  \/ \E storeUp \in BOOLEAN : BulkCommit(storeUp)

SpecSteps == InitBulk /\ [][NextSteps]_vars

----------------------------------------------------------------------------
(* Ownership specification: two users create records of both tables and    *)
(* send every operation at every identifier, their own or not.             *)

OwnCreateReqs ==
  {r \in LifeCreateReqs : r.status = "PLAYING"}
    \cup {[r EXCEPT !.collection_id = Some(1)] :
            r \in {q \in LifeCreateReqs : q.status = "PLAYING"}}
    \cup {[r EXCEPT !.collection_id = Some(1), !.game_id = "game-2"] :
            r \in {q \in LifeCreateReqs : q.status = "PLAYING"}}

OwnItemCreateReqs ==
  [game_id : {"game-1"}, platform : {"PC", "PS5"}, priority : {None}]

OwnUpdateReqs == {[status |-> Some("ON_HOLD")], [platform |-> Some("PS5")]}

OwnCompleteReqs == {r \in LifeCompleteReqs : r.completed_at = None}

OwnItemUpdateReqs ==
  [priority : {None, Some(2)}, is_active : {None, Some(FALSE)}]

OwnBulkRequests ==
  {rq \in BulkRequests :
     rq.data \in {None, Some([status |-> Some("ON_HOLD")]),
                  Some([platform |-> Some("PS5")]), Some([platform |-> None]),
                  Some([hours |-> Some(Num(3))])}}

OwnItemBulkRequests ==
  {[action |-> "update_priority", data |-> Some([priority |-> Some(Num(2))])],
   [action |-> "update_priority", data |-> Some([priority |-> Some(Num(6))])],
   [action |-> "update_platform", data |-> Some([platform |-> Some("PS5")])],
   [action |-> "update_platform", data |-> None],
   [action |-> "hide", data |-> None],
   [action |-> "activate", data |-> None]}

\* Bulk requests whose payload is an empty dict or carries the key of
\* another action.
OwnKeylessRequests ==
  {[action |-> "update_status", data |-> Some(<<>>)],
   [action |-> "update_status", data |-> Some([platform |-> Some("PS5")])],
   [action |-> "update_platform", data |-> Some(<<>>)],
   [action |-> "update_platform", data |-> Some([status |-> Some("ON_HOLD")])],
   [action |-> "add_time", data |-> Some(<<>>)],
   [action |-> "add_time", data |-> Some([status |-> Some("ON_HOLD")])]}

OwnItemKeylessRequests ==
  {[action |-> "update_priority", data |-> None],
   [action |-> "update_priority", data |-> Some(<<>>)],
   [action |-> "update_priority", data |-> Some([platform |-> Some("PS5")])],
   [action |-> "update_platform", data |-> Some(<<>>)],
   [action |-> "update_platform", data |-> Some([priority |-> Some(Num(2))])]}

NextOwn ==
  \/ \E u \in Users, req \in OwnCreateReqs : create_playthrough(u, req)
  \/ \E u \in Users, req \in OwnItemCreateReqs : create_collection_item(u, req)
  \/ \E u \in Users, pid \in PtIds : get_playthrough_by_id(u, pid)
  \/ \E u \in Users, pid \in PtIds, req \in OwnUpdateReqs :
       update_playthrough(u, pid, req)
  \/ \E u \in Users, pid \in PtIds, req \in OwnCompleteReqs :
       complete_playthrough(u, pid, req)
  \/ \E u \in Users, pid \in PtIds : delete_playthrough(u, pid)
  \/ \E u \in Users, rq \in OwnBulkRequests, ids \in IdLists(PtIds, MaxIds) :
       bulk_playthrough_operations(u, rq.action, ids, rq.data)
  \/ \E u \in Users, rq \in OwnKeylessRequests, ids \in IdLists(PtIds, 1) :
       bulk_playthrough_operations(u, rq.action, ids, rq.data)
  \/ \E u \in Users, rq \in OwnBulkRequests :
       bulk_playthrough_operations(u, rq.action, <<>>, rq.data)
  \/ \E u \in Users, rq \in OwnItemBulkRequests :
       bulk_collection_operations(u, rq.action, <<>>, rq.data)
  \/ \E u \in Users, cid \in PtIds : get_collection_item(u, cid)
  \/ \E u \in Users, cid \in PtIds, req \in OwnItemUpdateReqs :
       update_collection_item(u, cid, req)
  \/ \E u \in Users, cid \in PtIds, hard \in BOOLEAN :
       delete_collection_item(u, cid, hard)
  \/ \E u \in Users, rq \in OwnItemBulkRequests, ids \in IdLists(PtIds, MaxIds) :
       bulk_collection_operations(u, rq.action, ids, rq.data)
  \/ \E u \in Users, rq \in OwnItemKeylessRequests, ids \in IdLists(PtIds, 1) :
       bulk_collection_operations(u, rq.action, ids, rq.data)

SpecOwn == InitBulk /\ [][NextOwn]_vars

----------------------------------------------------------------------------
(* Transition-table specification: the predicate applied to every pair.    *)

ProbeStatuses ==
  {None, Some("BOGUS")} \cup {Some(t) : t \in PlaythroughStatus}

InitTable ==
  /\ pts = <<>>
  /\ items = <<>>
  /\ nextId = 1
  /\ clock = 0
  /\ last = NoLast
  /\ flight = NoFlight
  /\ probe \in [done : {FALSE}, from : ProbeStatuses, to : ProbeStatuses]
  /\ sessions = <<>>
  /\ issued = <<>>
  /\ race = NoRace
  /\ credited = NoCredit

ProbeRouter ==
  /\ ~probe.done
  /\ probe' = [done |-> TRUE, from |-> probe.from, to |-> probe.to,
               impl |-> "router",
               result |-> is_valid_status_transition(probe.from, probe.to)]
  /\ UNCHANGED <<pts, items, nextId, clock, last, flight, sessions, issued, race,
               credited>>

ProbeService ==
  /\ ~probe.done
  /\ probe' = [done |-> TRUE, from |-> probe.from, to |-> probe.to,
               impl |-> "service",
               result |-> svc_is_valid_status_transition(probe.from, probe.to)]
  /\ UNCHANGED <<pts, items, nextId, clock, last, flight, sessions, issued, race,
               credited>>

NextTable == ProbeRouter \/ ProbeService

SpecTable == InitTable /\ [][NextTable]_vars

----------------------------------------------------------------------------
(* Session store (app/session_store.py) *)

MaxSessions == 2

\* Refresh tokens a caller can pass: any str, the empty one included.
Tokens == {"", "token-1", "token-2"}

\* secrets.token_bytes(32), drawn anew for every hash.
Salts == {1, 2}

\* Identifiers a call can name: those create_session hands out, and one
\* more that never exists.
SessionIds == 1 .. (MaxSessions + 1)

\* hashlib.sha256(salt + token).digest(): equal digests come from equal
\* salt and token.
sha256(salt, token) == <<salt, token>>

\* "salt:hash".
hash_token(token, salt) == [salt |-> salt, hash |-> sha256(salt, token)]

verify_token(token, stored_hash) ==
  sha256(stored_hash.salt, token) = stored_hash.hash

\* Variant: the flag of the session is not looked at.
verify_refresh_token_any_state(db, session_id, refresh_token) ==
  IF \/ session_id \notin DOMAIN db
     \/ db[session_id].refresh_token_hash = None
    THEN FALSE
    ELSE verify_token(refresh_token, db[session_id].refresh_token_hash[1])

verify_refresh_token(db, session_id, refresh_token) ==
  IF \/ session_id \notin DOMAIN db
     \/ ~db[session_id].active
     \/ db[session_id].refresh_token_hash = None
    THEN FALSE
    ELSE verify_token(refresh_token, db[session_id].refresh_token_hash[1])

\* The handlers of the playthroughs and of the collection are not involved.
SessionFrame ==
  UNCHANGED <<pts, items, nextId, clock, flight, probe, race, credited>>

\* `refresh_token` is Optional; None and the empty string are both falsy.
create_session(user_id, refresh_token, salt) ==
  /\ Cardinality(DOMAIN sessions) < MaxSessions
  /\ LET id == Cardinality(DOMAIN sessions) + 1
         refresh_token_hash ==
           IF refresh_token # None /\ refresh_token[1] # ""
             THEN Some(hash_token(refresh_token[1], salt))
             ELSE None
     IN  /\ sessions' = sessions @@
                          (id :> [user_id |-> user_id,
                                  refresh_token_hash |-> refresh_token_hash,
                                  active |-> TRUE])
         /\ issued' = issued @@ (id :> [token |-> refresh_token,
                                        by |-> "create_session",
                                        deactivated |-> FALSE])
         /\ last' = [op |-> "create_session", id |-> id, changed |-> TRUE]
  /\ SessionFrame

get_session(session_id) ==
  /\ last' = [op |-> "get_session", id |-> session_id, changed |-> TRUE,
              result |-> IF session_id \in DOMAIN sessions
                           THEN Some(sessions[session_id]) ELSE None]
  /\ UNCHANGED <<sessions, issued>>
  /\ SessionFrame

VerifyRefreshToken(session_id, refresh_token) ==
  /\ last' = [op |-> "verify_refresh_token", id |-> session_id,
              token |-> refresh_token, changed |-> TRUE,
              result |-> verify_refresh_token(sessions, session_id,
                                              refresh_token)]
  /\ UNCHANGED <<sessions, issued>>
  /\ SessionFrame

update_refresh_token(session_id, new_refresh_token, salt) ==
  /\ IF session_id \notin DOMAIN sessions
       THEN /\ last' = [op |-> "update_refresh_token", id |-> session_id,
                        changed |-> TRUE, result |-> FALSE]
            /\ UNCHANGED <<sessions, issued>>
       ELSE /\ sessions' =
                 [sessions EXCEPT ![session_id].refresh_token_hash =
                                    Some(hash_token(new_refresh_token, salt))]
            /\ issued' = [issued EXCEPT
                            ![session_id].token = Some(new_refresh_token),
                            ![session_id].by = "update_refresh_token"]
            /\ last' = [op |-> "update_refresh_token", id |-> session_id,
                        changed |-> TRUE, result |-> TRUE]
  /\ SessionFrame

deactivate_session(session_id) ==
  /\ IF session_id \notin DOMAIN sessions
       THEN /\ last' = [op |-> "deactivate_session", id |-> session_id,
                        changed |-> TRUE, result |-> FALSE]
            /\ UNCHANGED <<sessions, issued>>
       ELSE /\ sessions' = [sessions EXCEPT ![session_id].active = FALSE]
            /\ issued' = [issued EXCEPT ![session_id].deactivated = TRUE]
            /\ last' = [op |-> "deactivate_session", id |-> session_id,
                        changed |-> TRUE, result |-> TRUE]
  /\ SessionFrame

NextSession ==
  \/ \E t \in {None} \cup {Some(x) : x \in Tokens}, salt \in Salts :
       create_session("user-1", t, salt)
  \/ \E sid \in SessionIds : get_session(sid)
  \/ \E sid \in SessionIds, t \in Tokens : VerifyRefreshToken(sid, t)
  \/ \E sid \in SessionIds, t \in Tokens, salt \in Salts :
       update_refresh_token(sid, t, salt)
  \/ \E sid \in SessionIds : deactivate_session(sid)

SpecSession == Init /\ [][NextSession]_vars

----------------------------------------------------------------------------
(* Concurrent requests.  A handler runs to its end inside one server       *)
(* process (it never awaits), so requests overlap when several processes   *)
(* serve the same database.  Each request has its own Session: it reads    *)
(* the committed rows, changes its own objects, and its commit writes the  *)
(* columns it changed to whatever the rows hold by then.                   *)

\* A request begins while an instant is left for its commit and for the
\* commits of the requests in progress.
CanBegin ==
  /\ last.changed
  /\ clock + Cardinality({w \in Workers : race[w].phase = "busy"}) < MaxClock

\* The request worker w holds between its reads and its commit.
Busy(op, u, ids, action, data, acc, base) ==
  [phase |-> "busy", op |-> op, user |-> u, ids |-> ids, todo |-> <<>>,
   action |-> action, data |-> data, now |-> Now, acc |-> acc, base |-> base]

\* The answer of a request that ends without a commit.
Answered(resp) ==
  /\ last' = resp @@ [pre |-> pts, preItems |-> items, changed |-> TRUE]
  /\ UNCHANGED race

RaceFrame ==
  UNCHANGED <<pts, items, nextId, clock, flight, probe, sessions, issued,
              credited>>

\* update_playthrough up to its commit.
RaceUpdate(w, u, pid, req) ==
  /\ CanBegin
  /\ race[w] = Idle
  /\ LET resp == [op |-> "update", user |-> u, id |-> pid, req |-> req]
     IN  IF ~Owned(pts, u, pid)
           THEN Answered(resp @@ [code |-> 404])
           ELSE LET out == UpdateOutcome(pts[pid], model_dump(req), Now)
                IN  IF out.code # 200
                      THEN Answered(resp @@ [code |-> out.code,
                                             detail |-> out.detail])
                      ELSE /\ race' = [race EXCEPT ![w] =
                                  Busy("update", u, <<pid>>, "none", Some(req),
                                       Put(EmptySession, pid, out.rec),
                                       (pid :> pts[pid]))]
                           /\ UNCHANGED last
  /\ RaceFrame

\* complete_playthrough up to its commit.
RaceComplete(w, u, pid, req) ==
  /\ CanBegin
  /\ race[w] = Idle
  /\ LET resp == [op |-> "complete", user |-> u, id |-> pid, req |-> req]
     IN  IF ~Owned(pts, u, pid)
           THEN Answered(resp @@ [code |-> 404])
           ELSE LET out == CompleteOutcome(pts[pid], req, Now)
                IN  IF out.code # 200
                      THEN Answered(resp @@ [code |-> out.code])
                      ELSE /\ race' = [race EXCEPT ![w] =
                                  Busy("complete", u, <<pid>>, "none",
                                       Some(req),
                                       Put(EmptySession, pid, out.rec),
                                       (pid :> pts[pid]))]
                           /\ UNCHANGED last
  /\ RaceFrame

\* bulk_playthrough_operations up to its loop.
RaceBulk(w, u, action, ids, data) ==
  /\ CanBegin
  /\ race[w] = Idle
  /\ LET resp == [op |-> "bulk", user |-> u, action |-> action, ids |-> ids,
                  data |-> data, ok |-> <<>>, failed |-> <<>>]
         key == RequiredKey(action)
     IN  IF ~Validates(ids)
           THEN Answered(resp @@ [code |-> 422])
         ELSE IF key # None /\ LacksKey(data, key[1])
           THEN Answered(resp @@ [code |-> 400])
         ELSE /\ race' = [race EXCEPT ![w] =
                            [Busy("bulk", u, ids, action, data, EmptySession,
                                  <<>>) EXCEPT !.todo = ids]]
              /\ UNCHANGED last
  /\ RaceFrame

\* One pass of the loop of a bulk request in progress: the row is read as
\* it is committed now, unless the session holds the object already.
RacePass(w) ==
  /\ race[w].phase = "busy"
  /\ race[w].todo # <<>>
  /\ LET t == race[w]
         pid == Head(t.todo)
         loads == Owned(pts, t.user, pid) /\ pid \notin DOMAIN t.base
     IN  race' = [race EXCEPT ![w] =
                    [t EXCEPT
                       !.acc = BulkItem(t.acc, pts, t.user, t.action, t.data,
                                        t.now, pid),
                       !.base = IF loads THEN t.base @@ (pid :> pts[pid])
                                         ELSE t.base,
                       !.todo = Tail(t.todo)]]
  /\ UNCHANGED last
  /\ RaceFrame

\* delete_collection_item with hard_delete up to its commit.
RaceHardDelete(w, u, cid) ==
  /\ CanBegin
  /\ race[w] = Idle
  /\ LET resp == [op |-> "item_delete", user |-> u, id |-> cid, hard |-> TRUE]
         playthrough_count ==
           Cardinality({p \in DOMAIN pts : pts[p].collection_id = Some(cid)})
     IN  IF ~Owned(items, u, cid)
           THEN Answered(resp @@ [code |-> 404])
         ELSE IF playthrough_count > 0
           THEN Answered(resp @@ [code |-> 409])
         ELSE /\ race' = [race EXCEPT ![w] =
                            Busy("item_delete", u, <<cid>>, "none", None,
                                 EmptySession, <<>>)]
              /\ UNCHANGED last
  /\ RaceFrame

\* The columns the flush of an object writes: those that differ from the
\* row as the session loaded it; the other columns keep what the row holds.
Flushed(obj, base, row) ==
  [f \in DOMAIN row |-> IF obj[f] # base[f] THEN obj[f] ELSE row[f]]

\* An UPDATE whose row is gone matches no row, and the flush raises.
Stale(acc, store) ==
  \E pid \in DOMAIN acc.obj \ acc.del : pid \notin DOMAIN store

RaceCommitted(acc, base, store) ==
  [pid \in DOMAIN store \ acc.del |->
     IF pid \in DOMAIN acc.obj
       THEN Flushed(acc.obj[pid], base[pid], store[pid])
       ELSE store[pid]]

\* The hours the successes of a committed add_time request have added.
Credit(t) ==
  [pid \in PtIds |->
     IF t.op = "bulk" /\ t.action = "add_time"
       THEN credited[pid]
              + Cardinality({i \in DOMAIN t.acc.ok : t.acc.ok[i] = pid})
                  * t.data[1].hours[1].n
       ELSE credited[pid]]

\* db.commit() of a request on playthroughs, and its answer.
RaceCommit(w) ==
  /\ race[w].phase = "busy"
  /\ race[w].todo = <<>>
  /\ race[w].op # "item_delete"
  /\ LET t == race[w]
         resp == [op |-> t.op, user |-> t.user, ids |-> t.ids, id |-> t.ids[1],
                  action |-> t.action, data |-> t.data, pre |-> pts,
                  preItems |-> items, changed |-> TRUE]
     IN  IF CommitOk(t.acc) /\ ~Stale(t.acc, pts)
           THEN /\ pts' = RaceCommitted(t.acc, t.base, pts)
                /\ credited' = Credit(t)
                /\ last' = resp @@ [code |-> IF Len(t.acc.failed) = 0
                                               THEN 200 ELSE 207,
                                    ok |-> t.acc.ok, failed |-> t.acc.failed,
                                    body |-> ResponseData(t.acc)]
           ELSE /\ UNCHANGED <<pts, credited>>
                /\ last' = resp @@ [code |-> 500, ok |-> <<>>,
                                    failed |-> <<>>]
  /\ clock' = clock + 1
  /\ race' = [race EXCEPT ![w] = Idle]
  /\ UNCHANGED <<items, nextId, flight, probe, sessions, issued>>

\* db.delete(collection_item); db.commit().  `enforced` tells whether the
\* database enforces ForeignKey("collection_items.id", ondelete="SET NULL")
\* (SQLite does not, unless told to).
RaceDeleteCommit(w, enforced) ==
  /\ race[w].phase = "busy"
  /\ race[w].op = "item_delete"
  /\ LET t == race[w]
         cid == t.ids[1]
     IN  /\ items' = [c \in DOMAIN items \ {cid} |-> items[c]]
         /\ pts' = IF enforced
                     THEN [p \in DOMAIN pts |->
                             IF pts[p].collection_id = Some(cid)
                               THEN [pts[p] EXCEPT !.collection_id = None]
                               ELSE pts[p]]
                     ELSE pts
         /\ last' = [op |-> "item_delete", user |-> t.user, id |-> cid,
                     hard |-> TRUE, code |-> 200, pre |-> pts,
                     preItems |-> items, changed |-> TRUE]
  /\ clock' = clock + 1
  /\ race' = [race EXCEPT ![w] = Idle]
  /\ UNCHANGED <<nextId, flight, probe, sessions, issued, credited>>

\* A request handled from its first read to its commit while others are in
\* progress.
RaceCreate(u, req) == CanBegin /\ create_playthrough(u, req)

RaceCreateItem(u, req) == CanBegin /\ create_collection_item(u, req)

RaceCreateReqs ==
  {r \in OwnCreateReqs : r.game_id = "game-1"}

RaceItemCreateReqs == {r \in OwnItemCreateReqs : r.platform = "PC"}

RaceUpdateReqs == {[status |-> Some("ON_HOLD")], [status |-> Some("MASTERED")]}

RaceCompleteReqs ==
  {r \in LifeCompleteReqs :
     r.completion_type = "COMPLETED" /\ r.completed_at = None}

RaceBulkRequests ==
  {[action |-> "update_status", data |-> Some([status |-> Some("DROPPED")])],
   [action |-> "add_time", data |-> Some([hours |-> Some(Num(3))])]}

\* The identifiers Create hands out.
RaceIds == 1 .. MaxPt

NextRace ==
  \/ \E req \in RaceCreateReqs : RaceCreate(Caller, req)
  \/ \E req \in RaceItemCreateReqs : RaceCreateItem(Caller, req)
  \/ \E w \in Workers, pid \in RaceIds, req \in RaceUpdateReqs :
       RaceUpdate(w, Caller, pid, req)
  \/ \E w \in Workers, pid \in RaceIds, req \in RaceCompleteReqs :
       RaceComplete(w, Caller, pid, req)
  \/ \E w \in Workers, rq \in RaceBulkRequests, ids \in IdLists(RaceIds, 2) :
       RaceBulk(w, Caller, rq.action, ids, rq.data)
  \/ \E w \in Workers : RacePass(w)
  \/ \E w \in Workers, cid \in RaceIds : RaceHardDelete(w, Caller, cid)
  \/ \E w \in Workers : RaceCommit(w)
  \/ \E w \in Workers, enforced \in BOOLEAN : RaceDeleteCommit(w, enforced)

SpecRace == InitBulk /\ [][NextRace]_vars

----------------------------------------------------------------------------
(* Claims *)

\* The edges of the transition table, as the specification lists them.
LegalEdges ==
  {<<"PLANNING", "PLAYING">>, <<"PLANNING", "DROPPED">>,
   <<"PLAYING", "COMPLETED">>, <<"PLAYING", "DROPPED">>,
   <<"PLAYING", "ON_HOLD">>, <<"PLAYING", "MASTERED">>,
   <<"ON_HOLD", "PLAYING">>, <<"ON_HOLD", "DROPPED">>,
   <<"ON_HOLD", "COMPLETED">>, <<"ON_HOLD", "MASTERED">>,
   <<"COMPLETED", "MASTERED">>,
   <<"DROPPED", "PLANNING">>, <<"DROPPED", "PLAYING">>}

\* C1: for every pair of the six statuses the predicate (router copy and
\* service copy) answers true when from = to and otherwise exactly when
\* (from, to) is an edge of the table.
C1_TransitionTable ==
  (/\ probe.done
   /\ probe.from # None /\ probe.from[1] \in PlaythroughStatus
   /\ probe.to # None /\ probe.to[1] \in PlaythroughStatus)
  => (probe.result <=> (\/ probe.from = probe.to
                        \/ <<probe.from[1], probe.to[1]>> \in LegalEdges))

C1_Witness ==
  /\ probe.done
  /\ probe.from = Some("MASTERED")
  /\ probe.to = Some("PLAYING")
  /\ probe.result = FALSE

\* The playthroughs a request found and left in the store.
Kept == DOMAIN last.pre \cap DOMAIN pts

StatusOps == {"update", "complete", "bulk"}

\* C2: whatever Update, Complete or bulk update_status did, a stored status
\* that differs from the one before the request is an edge of the table; a
\* MASTERED playthrough stays MASTERED and a COMPLETED one can only have
\* become MASTERED.
C2_LegalStatusChanges ==
  last.op \in StatusOps =>
    \A pid \in Kept :
      LET before == last.pre[pid].status
          after  == pts[pid].status
      IN  /\ after # None
          /\ after # before => <<before[1], after[1]>> \in LegalEdges
          /\ before = Some("MASTERED") => after = Some("MASTERED")
          /\ before = Some("COMPLETED") =>
               after \in {Some("COMPLETED"), Some("MASTERED")}

C2_Witness ==
  /\ last.op = "bulk"
  /\ last.code = 200
  /\ \E pid \in Kept :
       /\ last.pre[pid].status = Some("COMPLETED")
       /\ pts[pid].status = Some("MASTERED")

\* The status a request asked for and the handler accepted for playthrough
\* pid (None when the request left the status alone or was refused).
Accepted(pid) ==
  CASE last.op = "update" /\ last.code = 200 /\ last.id = pid ->
         IF "status" \in DOMAIN last.req THEN last.req.status ELSE None
    [] last.op = "complete" /\ last.code = 200 /\ last.id = pid ->
         Some(last.req.completion_type)
    [] /\ last.op = "bulk" /\ last.code \in {200, 207}
       /\ last.action = "update_status"
       /\ \E i \in 1 .. Len(last.ok) : last.ok[i] = pid ->
         last.data[1].status
    [] OTHER -> None

\* The timestamp the caller sent with the request for `field`, as an
\* Optional: <<>> when the field was left out, <<v>> when v (a datetime or
\* null) was sent.
Sent(field) ==
  CASE last.op = "update" ->
         IF field \in DOMAIN last.req THEN Some(last.req[field]) ELSE None
    [] last.op = "complete" /\ field = "completed_at" ->
         IF last.req.completed_at # None THEN Some(last.req.completed_at)
                                         ELSE None
    [] OTHER -> None

\* C8: a transition into PLAYING writes started_at = now exactly when it was
\* unset, and no status request changes a started_at that is set (the caller
\* sending no started_at).
C8_StartedAtFirstWrite ==
  last.op \in StatusOps =>
    \A pid \in Kept :
      (Accepted(pid) # None /\ Sent("started_at") = None) =>
        LET before == last.pre[pid].started_at
            after  == pts[pid].started_at
        IN  /\ before # None => after = before
            /\ (before = None /\ Accepted(pid) = Some("PLAYING"))
                 => after = Some(clock)
            /\ (before = None /\ Accepted(pid) # Some("PLAYING"))
                 => after = None

\* PLANNING -> PLAYING -> ON_HOLD -> PLAYING: the second transition into
\* PLAYING finds the started_at the first one wrote.
C8_Witness ==
  /\ last.op = "update"
  /\ last.code = 200
  /\ last.req = [status |-> Some("PLAYING")]
  /\ last.id \in Kept
  /\ last.pre[last.id].status = Some("ON_HOLD")
  /\ last.pre[last.id].created_at = Some(1)
  /\ last.pre[last.id].started_at = Some(2)
  /\ pts[last.id].started_at = Some(2)
  /\ clock = 4

Resting == {Some("ON_HOLD"), Some("DROPPED"), Some("PLANNING")}

\* C10 as claimed: a transition into ON_HOLD, DROPPED or PLANNING through
\* Update, Complete or bulk update_status, the caller sending no timestamp,
\* leaves started_at and completed_at as they were.
C10_NoTimestampWrite ==
  last.op \in StatusOps =>
    \A pid \in Kept :
      (/\ Accepted(pid) \in Resting
       /\ Sent("started_at") = None
       /\ Sent("completed_at") = None) =>
        /\ pts[pid].started_at = last.pre[pid].started_at
        /\ pts[pid].completed_at = last.pre[pid].completed_at

\* C10 amended: the same, except that Complete with type DROPPED writes
\* completed_at = now when none is stored (and keeps a stored one).
C10_NoTimestampWriteButCompleteDropped ==
  last.op \in StatusOps =>
    \A pid \in Kept :
      (/\ Accepted(pid) \in Resting
       /\ Sent("started_at") = None
       /\ Sent("completed_at") = None) =>
        /\ pts[pid].started_at = last.pre[pid].started_at
        /\ IF /\ last.op = "complete"
              /\ Accepted(pid) = Some("DROPPED")
              /\ last.pre[pid].completed_at = None
             THEN pts[pid].completed_at = Some(clock)
             ELSE pts[pid].completed_at = last.pre[pid].completed_at

C10_Witness ==
  /\ last.op = "complete"
  /\ last.code = 200
  /\ last.req.completion_type = "DROPPED"
  /\ last.req.completed_at = None
  /\ last.id \in Kept
  /\ last.pre[last.id].completed_at = None
  /\ pts[last.id].completed_at = Some(clock)

----------------------------------------------------------------------------
(* Bulk requests.                                                          *)

Range(s) == {s[i] : i \in DOMAIN s}

FailedIds == {last.failed[i].id : i \in DOMAIN last.failed}

BulkAnswered == last.op = "bulk" /\ last.code \notin {400, 422}

\* C3: in a bulk status update every target the caller owns whose stored
\* status may move to the requested one is reported as a success and is
\* stored with the requested status, whatever happens to the other targets
\* of the list; every other target is reported in failed_items and its
\* record, if any, is as it was.
C3_BulkIsolation ==
  (BulkAnswered /\ last.action = "update_status") =>
    \A pid \in Range(last.ids) :
      IF /\ Owned(last.pre, last.user, pid)
         /\ is_valid_status_transition(last.pre[pid].status,
                                       last.data[1].status)
        THEN /\ pid \in Range(last.ok)
             /\ pid \in DOMAIN pts
             /\ pts[pid].status = last.data[1].status
        ELSE /\ pid \in FailedIds
             /\ pid \notin Range(last.ok)
             /\ pid \in DOMAIN last.pre => /\ pid \in DOMAIN pts
                                           /\ pts[pid] = last.pre[pid]

\* Targets [A, B, C] with B absent: A and C moved to ON_HOLD, B failed.
C3_Witness ==
  /\ BulkAnswered
  /\ last.action = "update_status"
  /\ last.data = Some([status |-> Some("ON_HOLD")])
  /\ last.ids = <<1, MaxPt + 1, 2>>
  /\ MaxPt + 1 \notin DOMAIN last.pre
  /\ last.ok = <<1, 2>>
  /\ FailedIds = {MaxPt + 1}
  /\ last.code = 207
  /\ last.pre[1].status = Some("PLAYING")
  /\ pts[1].status = Some("ON_HOLD")
  /\ pts[2].status = Some("ON_HOLD")

\* C5: a bulk request that passed the request-level checks answers 200 when
\* no item failed and 207 when at least one did, never another code.
C5_StatusCodeSelection ==
  BulkAnswered =>
    /\ last.code \in {200, 207}
    /\ last.code = 200 <=> Len(last.failed) = 0

\* C6: a bulk request that passed the request-level checks gives an
\* aggregate answer with one outcome for every target of the list.
C6_RunsToTheEnd ==
  BulkAnswered =>
    /\ last.code \in {200, 207}
    /\ Len(last.ok) + Len(last.failed) = Len(last.ids)

\* C4: every target the running bulk request has recorded as a success has
\* its change in the store, during the request and after its answer.
C4_PerItemCommit ==
  \A i \in DOMAIN flight.acc.ok :
    LET pid == flight.acc.ok[i]
    IN  IF pid \in flight.acc.del
          THEN pid \notin DOMAIN pts
          ELSE pid \in DOMAIN pts /\ pts[pid] = flight.acc.obj[pid]

----------------------------------------------------------------------------
(* Ownership.                                                              *)

\* The part of a table the user can see.
Visible(store, u) == [id \in {i \in DOMAIN store : store[i].user_id = u} |-> store[id]]

\* The records of the other users are in the table as they were.
OthersKept(before, after, u) ==
  \A id \in DOMAIN before :
    before[id].user_id # u => id \in DOMAIN after /\ after[id] = before[id]

\* C7: an operation aimed at a record the caller does not own answers 404 and
\* stores nothing; a bulk request answers what it would answer if the
\* records of the other users were not in the table, with 'not found' for
\* each of them; and no request changes a record of another user.
C7_OwnershipOpacity ==
  /\ last.op # "none" =>
       /\ OthersKept(last.pre, pts, last.user)
       /\ OthersKept(last.preItems, items, last.user)
  /\ (/\ last.op \in {"get", "update", "complete", "delete"}
      /\ ~Owned(last.pre, last.user, last.id))
       => last.code = 404 /\ ~last.changed
  /\ (/\ last.op \in {"item_get", "item_update", "item_delete"}
      /\ ~Owned(last.preItems, last.user, last.id))
       => last.code = 404 /\ ~last.changed
  /\ BulkAnswered =>
       LET alone == BulkLoop(EmptySession, Visible(last.pre, last.user),
                             last.user, last.action, last.data, clock, last.ids)
       IN  /\ last.code = 500 <=> ~CommitOk(alone)
           /\ last.code # 500 =>
                /\ last.ok = alone.ok
                /\ last.failed = alone.failed
                /\ \A pid \in Range(last.ids) :
                     ~Owned(last.pre, last.user, pid) =>
                       /\ pid \notin Range(last.ok)
                       /\ \E i \in DOMAIN last.failed :
                            last.failed[i] = [id |-> pid, error |-> "not found"]
  /\ (last.op = "item_bulk" /\ last.code # 400) =>
       LET alone == CollectionLoop([store |-> Visible(last.preItems, last.user),
                                    results |-> <<>>],
                                   last.user, last.action, last.data, clock,
                                   last.ids)
       IN  /\ last.results = alone.results
           /\ \A cid \in Range(last.ids) :
                ~Owned(last.preItems, last.user, cid) =>
                  \E i \in DOMAIN last.results :
                    last.results[i] = [id |-> cid, success |-> FALSE,
                                       error |-> "not found"]

\* A bulk request over the caller's record, another user's record and an
\* absent identifier: the first is changed, the other two fail alike.
C7_Witness ==
  /\ BulkAnswered
  /\ last.action = "update_status"
  /\ last.user = "user-1"
  /\ last.ids = <<1, 2, MaxPt + 1>>
  /\ Owned(last.pre, "user-1", 1)
  /\ Owned(last.pre, "user-2", 2)
  /\ MaxPt + 1 \notin DOMAIN last.pre
  /\ last.ok = <<1>>
  /\ last.failed = <<[id |-> 2, error |-> "not found"],
                     [id |-> MaxPt + 1, error |-> "not found"]>>
  /\ pts[1] # last.pre[1]
  /\ pts[2] = last.pre[2]

----------------------------------------------------------------------------
(* Refusals of the single-item handlers.                                   *)

Finalized == {Some("COMPLETED"), Some("MASTERED"), Some("DROPPED")}

\* C11: Complete on a playthrough of the caller whose stored status is
\* COMPLETED, MASTERED or DROPPED answers 409 whatever the completion type,
\* and stores nothing.
C11_AlreadyFinalized ==
  (/\ last.op = "complete"
   /\ Owned(last.pre, last.user, last.id)
   /\ last.pre[last.id].status \in Finalized)
    => /\ last.code = 409
       /\ pts = last.pre

\* COMPLETED asked for DROPPED: not an edge of the table, still 409.
C11_Witness ==
  /\ last.op = "complete"
  /\ Owned(last.pre, last.user, last.id)
  /\ last.pre[last.id].status = Some("COMPLETED")
  /\ last.req.completion_type = "DROPPED"
  /\ last.code = 409
  /\ pts = last.pre

\* C12: Update of a playthrough of the caller with a status that differs
\* from the stored one and is not an edge answers 422, names the stored and
\* the requested status, and stores nothing: the record is as it was, its
\* other fields and updated_at included.
C12_InvalidTransition ==
  (/\ last.op = "update"
   /\ Owned(last.pre, last.user, last.id)
   /\ "status" \in DOMAIN last.req
   /\ last.req.status # None
   /\ last.req.status # last.pre[last.id].status
   /\ <<last.pre[last.id].status[1], last.req.status[1]>> \notin LegalEdges)
    => /\ last.code = 422
       /\ last.detail = <<last.pre[last.id].status[1], last.req.status[1]>>
       /\ pts = last.pre

\* MASTERED asked for PLAYING together with a started_at.
C12_Witness ==
  /\ last.op = "update"
  /\ Owned(last.pre, last.user, last.id)
  /\ last.pre[last.id].status = Some("MASTERED")
  /\ last.req = [status |-> Some("PLAYING"), started_at |-> Some(CallerTime)]
  /\ last.code = 422
  /\ pts[last.id].started_at = last.pre[last.id].started_at
  /\ pts[last.id].updated_at = last.pre[last.id].updated_at

----------------------------------------------------------------------------
(* Request-level refusals of the bulk handlers.                            *)

\* The payload key each bulk action needs (None: the action needs none).
NeededKey ==
  [bulk |-> [update_status |-> Some("status"),
             update_platform |-> Some("platform"),
             add_time |-> Some("hours"), delete |-> None],
   item_bulk |-> [update_priority |-> Some("priority"),
                  update_platform |-> Some("platform"),
                  hide |-> None, activate |-> None]]

\* The last request was a bulk request without the key its action needs.
Keyless ==
  /\ last.op \in {"bulk", "item_bulk"}
  /\ last.ids # <<>>
  /\ NeededKey[last.op][last.action] # None
  /\ \/ last.data = None
     \/ NeededKey[last.op][last.action][1] \notin DOMAIN last.data[1]

\* The per-target outcomes of the last bulk answer.
Outcomes ==
  IF last.op = "bulk" THEN last.ok \o last.failed ELSE last.results

\* C13: a bulk request for at least one target without the key its action
\* needs is answered 400
\* with no outcome for any target and stores nothing; delete, hide and
\* activate are never answered 400.
C13_MissingPayload ==
  /\ Keyless => /\ last.code = 400
                /\ Outcomes = <<>>
                /\ pts = last.pre
                /\ items = last.preItems
  /\ (/\ last.op \in {"bulk", "item_bulk"}
      /\ NeededKey[last.op][last.action] = None) => last.code # 400

\* add_time with the payload of another action, aimed at a playthrough of
\* the caller.
C13_Witness ==
  /\ Keyless
  /\ last.op = "bulk"
  /\ last.action = "add_time"
  /\ last.data = Some([status |-> Some("ON_HOLD")])
  /\ \E i \in DOMAIN last.ids : Owned(last.pre, last.user, last.ids[i])
  /\ last.code = 400
  /\ pts = last.pre

EmptyList == last.op \in {"bulk", "item_bulk"} /\ last.ids = <<>>

\* C14 as claimed: a bulk request with an empty list of targets is answered
\* 400 and stores nothing.
C14_EmptyListIs400 ==
  EmptyList => /\ last.code = 400
               /\ pts = last.pre
               /\ items = last.preItems

\* C14 amended: a bulk request with an empty list of targets is refused by
\* the validation of the body with 422, before the handler runs; it has no
\* outcome for any target and stores nothing.
C14_EmptyListIs422 ==
  EmptyList => /\ last.code = 422
               /\ Outcomes = <<>>
               /\ pts = last.pre
               /\ items = last.preItems

\* An empty delete sent by a user who has a playthrough.
C14_Witness ==
  /\ EmptyList
  /\ last.op = "bulk"
  /\ last.action = "delete"
  /\ \E pid \in DOMAIN last.pre : last.pre[pid].user_id = last.user
  /\ last.code = 422
  /\ pts = last.pre

----------------------------------------------------------------------------
(* The body of the bulk playthrough answer.                                *)

\* The last request was a bulk playthrough request answered with the
\* aggregate result.
Aggregate == last.op = "bulk" /\ last.code \in {200, 207}

\* The targets of the last request that are not among the reported items.
Unreported ==
  {i \in DOMAIN last.ids :
     last.ids[i] \notin {last.body.items[j].id : j \in DOMAIN last.body.items}}

\* C15: in the aggregate answer of a bulk playthrough request, success is
\* true exactly when no target failed, failed_count and failed_items are
\* there exactly when one did, the two counts are the lengths of the two
\* lists and account for every target, and each failed entry has the id of
\* a target and a reason.
C15_ResponseShape ==
  Aggregate =>
    LET b == last.body
        failed == "failed_items" \in DOMAIN b
    IN  /\ b.success <=> Unreported = {}
        /\ b.success <=> ~failed
        /\ failed <=> "failed_count" \in DOMAIN b
        /\ b.updated_count = Len(b.items)
        /\ failed => /\ b.failed_count = Len(b.failed_items)
                     /\ b.failed_count > 0
                     /\ b.updated_count + b.failed_count = Len(last.ids)
                     /\ \A i \in DOMAIN b.failed_items :
                          /\ b.failed_items[i].id \in Range(last.ids)
                          /\ b.failed_items[i].error # ""
        /\ ~failed => b.updated_count = Len(last.ids)

\* One target updated, one missing.
C15_Witness ==
  /\ Aggregate
  /\ last.code = 207
  /\ last.body.success = FALSE
  /\ last.body.updated_count = 1
  /\ last.body.failed_count = 1
  /\ Len(last.body.items) = 1
  /\ Len(last.body.failed_items) = 1

\* The hours stored for playthrough pid before the last request, 0 when
\* unset.
HoursBefore(pid) ==
  IF last.pre[pid].play_time_hours = None
    THEN 0 ELSE last.pre[pid].play_time_hours[1]

\* How many of the first j reported items are about playthrough pid.
Times(pid, j) ==
  Cardinality({k \in 1 .. j : last.body.items[k].id = pid})

\* C16: a bulk add_time of a number of hours reports every target that is
\* a playthrough of the caller, and nothing else; each item is reported
\* with the hours it had plus the hours of the request (once more for each
\* earlier occurrence in the list) and stored with the last value reported
\* for it.
C16_AddTime ==
  (Aggregate /\ last.action = "add_time" /\ IsNumber(last.data[1].hours)) =>
    LET h == last.data[1].hours[1].n
        items_ == last.body.items
    IN  /\ \A i \in DOMAIN last.ids :
             Owned(last.pre, last.user, last.ids[i]) => i \notin Unreported
        /\ \A j \in DOMAIN items_ :
          LET pid == items_[j].id
          IN  /\ Owned(last.pre, last.user, pid)
              /\ items_[j].play_time_hours
                   = Some(HoursBefore(pid) + Times(pid, j) * h)
              /\ pts[pid].play_time_hours
                   = Some(HoursBefore(pid) + Times(pid, Len(items_)) * h)

\* Hours unset and 3 added: exactly 3 reported and stored.
C16_Witness ==
  /\ Aggregate
  /\ last.action = "add_time"
  /\ last.data = Some([hours |-> Some(Num(3))])
  /\ last.ids = <<1>>
  /\ Owned(last.pre, last.user, 1)
  /\ last.pre[1].play_time_hours = None
  /\ last.body.items[1].play_time_hours = Some(3)
  /\ pts[1].play_time_hours = Some(3)

----------------------------------------------------------------------------
(* Create with a collection item.                                          *)

\* C17: Create with a collection_id answers 404 when the item is missing or
\* of another user, 422 when it is an item of the caller for another game,
\* and creates no playthrough in either case; otherwise the playthrough is
\* created.
C17_CreateCrossCheck ==
  (last.op = "create" /\ last.req.collection_id # None) =>
    LET c == last.req.collection_id[1]
    IN  IF ~Owned(last.preItems, last.user, c)
          THEN last.code = 404 /\ pts = last.pre
        ELSE IF last.preItems[c].game_id # last.req.game_id
          THEN last.code = 422 /\ pts = last.pre
        ELSE last.code = 201 /\ DOMAIN pts # DOMAIN last.pre

\* The playthroughs of a store that reference the collection item `cid`.
Referencing(store, cid) ==
  {p \in DOMAIN store : store[p].collection_id = Some(cid)}

\* The delete of a collection item its caller owns.
ItemDelete ==
  last.op = "item_delete" /\ Owned(last.preItems, last.user, last.id)

\* What a delete must leave: a hard delete of an item some playthrough
\* references is refused with 409 and changes nothing, a hard delete of an
\* item none references removes that item alone, and a soft delete answers
\* 200 and leaves `soft`, the items it may leave, with every playthrough.
DeleteLeaves(soft) ==
  ItemDelete =>
    IF last.hard
      THEN IF Referencing(last.pre, last.id) # {}
             THEN last.code = 409 /\ items = last.preItems /\ pts = last.pre
             ELSE /\ last.code = 200
                  /\ items = [c \in DOMAIN last.preItems \ {last.id} |->
                                last.preItems[c]]
                  /\ pts = last.pre
      ELSE last.code = 200 /\ items = soft /\ pts = last.pre

\* C18 (as stated): an item is hard-deleted only if no playthrough references
\* it, the refused hard delete answers 409 and leaves the item and its
\* playthroughs as they were, and a soft delete always succeeds, keeps the
\* item and changes no field of it but is_active, which becomes false.
C18_SoftDeleteOnlyDeactivates ==
  DeleteLeaves([last.preItems EXCEPT ![last.id].is_active = FALSE])

\* C18 (amended): as above, and the soft delete also refreshes updated_at, so
\* that a repeated soft delete succeeds again and leaves every field of the
\* item but updated_at as the first one left it.
C18_GuardedDelete ==
  DeleteLeaves([last.preItems EXCEPT
                  ![last.id] = [@ EXCEPT !.is_active = FALSE,
                                         !.updated_at = Some(clock)]])

\* A hard delete refused because a playthrough references the item.
C18_Witness ==
  /\ ItemDelete
  /\ last.hard
  /\ Referencing(last.pre, last.id) # {}
  /\ last.code = 409

\* The collection bulk answers that carry per-item results.
ItemBulkAnswered == last.op = "item_bulk" /\ last.code \notin {400, 422}

\* The item `cid` was written by the last request.
Updated(cid) ==
  /\ cid \in DOMAIN items
  /\ cid \in DOMAIN last.preItems
  /\ items[cid] # last.preItems[cid]

\* C19: a collection bulk request that passes the request-level checks is
\* answered 200 with success = true exactly when every requested id was
\* updated and 207 with success = false otherwise; results holds one entry
\* per requested id, in order, an entry has success = true exactly when its
\* item was updated, updated_count counts those entries and total_count is
\* the number of requested ids.
C19_CollectionBulkProtocol ==
  ItemBulkAnswered =>
    LET ids == last.ids
        b == last.body
        all == \A i \in DOMAIN ids : Updated(ids[i])
    IN  /\ last.code = IF all THEN 200 ELSE 207
        /\ b.success = all
        /\ Len(b.results) = Len(ids)
        /\ \A i \in DOMAIN ids :
             /\ b.results[i].id = ids[i]
             /\ b.results[i].success = Updated(ids[i])
        /\ b.updated_count =
             Cardinality({i \in DOMAIN b.results : b.results[i].success})
        /\ b.total_count = Len(ids)

\* Every requested id is missing or not owned, one of them being an item of
\* another user.
C19_Witness ==
  /\ ItemBulkAnswered
  /\ Len(last.ids) >= 2
  /\ \A i \in DOMAIN last.ids : ~Owned(last.preItems, last.user, last.ids[i])
  /\ \E i \in DOMAIN last.ids : last.ids[i] \in DOMAIN last.preItems
  /\ last.code = 207
  /\ last.body.updated_count = 0

\* (user_id, game_id, platform) of a stored collection item.
ItemKey(r) == <<r.user_id, r.game_id, r.platform>>

\* The stored items with the key `k`, active or not.
Holding(store, k) == {c \in DOMAIN store : ItemKey(store[c]) = k}

\* C20: after any sequence of collection create, update, delete and bulk
\* requests no two stored items share (user_id, game_id, platform), and the
\* create of an item whose key is already stored is answered 409 and adds no
\* record.
C20_UniqueItems ==
  /\ \A a, b \in DOMAIN items :
       ItemKey(items[a]) = ItemKey(items[b]) => a = b
  /\ (/\ last.op = "item_create"
      /\ Holding(last.preItems,
                 <<last.user, last.req.game_id, last.req.platform>>) # {})
       => last.code = 409 /\ items = last.preItems

\* A bulk update_platform over two items of one game and one user, of which
\* the one that would take the platform of the other is reported failed.
C20_Witness ==
  /\ ItemBulkAnswered
  /\ last.action = "update_platform"
  /\ Len(last.ids) >= 2
  /\ \E i, j \in DOMAIN last.ids :
       /\ last.ids[i] # last.ids[j]
       /\ Owned(last.preItems, last.user, last.ids[i])
       /\ Owned(last.preItems, last.user, last.ids[j])
       /\ last.preItems[last.ids[i]].game_id = last.preItems[last.ids[j]].game_id
       /\ last.preItems[last.ids[i]].platform # last.preItems[last.ids[j]].platform
       /\ ~last.body.results[i].success
       /\ last.body.results[j].success

\* An Update of a playthrough of its caller that was answered 200.
Updated200 == last.op = "update" /\ last.code = 200

\* The value Update leaves in field f when it writes the body and nothing
\* else: the value sent, or the stored one when the field was not sent.
Applied(f) ==
  IF f \in DOMAIN last.req THEN last.req[f] ELSE last.pre[last.id][f]

\* The Timestamp Policy writes field f in the last Update: the body carries
\* the status of that timestamp and the field is unset once the body is
\* applied.
Stamps(f) ==
  /\ "status" \in DOMAIN last.req
  /\ \/ f = "started_at" /\ last.req.status = Some("PLAYING")
     \/ f = "completed_at"
          /\ last.req.status \in {Some("COMPLETED"), Some("MASTERED")}
  /\ Applied(f) = None

\* id, user_id, game_id and created_at of the updated playthrough are the
\* ones stored before, whatever the body contains.
ImmutableKept ==
  /\ DOMAIN pts = DOMAIN last.pre
  /\ pts[last.id].user_id = last.pre[last.id].user_id
  /\ pts[last.id].game_id = last.pre[last.id].game_id
  /\ pts[last.id].created_at = last.pre[last.id].created_at

\* C21 (as stated): Update changes exactly the supplied fields: a field sent
\* as null is cleared, a field left out keeps its stored value, and id,
\* user_id, game_id and created_at never change.
C21_ExactlySupplied ==
  Updated200 =>
    /\ \A f \in UpdateFields : pts[last.id][f] = Applied(f)
    /\ ImmutableKept

\* C21 (amended): as above, but for the timestamp the Timestamp Policy
\* writes, which holds the instant of the request although it was left out
\* or sent as null; updated_at holds that instant too.
C21_SuppliedAndStamped ==
  Updated200 =>
    /\ \A f \in UpdateFields :
         pts[last.id][f] = IF Stamps(f) THEN Some(clock) ELSE Applied(f)
    /\ pts[last.id].updated_at = Some(clock)
    /\ ImmutableKept

\* An Update whose body names the four immutable columns beside platform,
\* and that wrote the platform.
C21_Witness ==
  /\ Updated200
  /\ {"user_id", "game_id", "created_at", "platform"} \subseteq DOMAIN last.req
  /\ pts[last.id].platform = Some("PS5")
  /\ last.pre[last.id].platform = Some("PC")

\* The answer of the last verify_refresh_token call is `expected`.
VerifyAnswers(expected) ==
  last.op = "verify_refresh_token" => last.result = expected

\* C22 (as stated): verify_refresh_token(session, t) is true exactly when
\* the session exists, was never deactivated, and t is the token most
\* recently passed to create_session or update_refresh_token for it.
C22_VerifiesLatestToken ==
  VerifyAnswers(/\ last.id \in DOMAIN issued
                /\ ~issued[last.id].deactivated
                /\ issued[last.id].token = Some(last.token))

\* C22 (amended): as above, but an empty token passed to create_session sets
\* no token, so that the empty token verifies only once update_refresh_token
\* has set it.
C22_VerifiesLatestNonEmptyAtCreate ==
  VerifyAnswers(/\ last.id \in DOMAIN issued
                /\ ~issued[last.id].deactivated
                /\ issued[last.id].token = Some(last.token)
                /\ ~(/\ issued[last.id].by = "create_session"
                      /\ last.token = ""))

\* The latest token is refused for a session that was deactivated and given
\* a new token afterwards.
C22_Witness ==
  /\ last.op = "verify_refresh_token"
  /\ last.id \in DOMAIN sessions
  /\ issued[last.id].deactivated
  /\ issued[last.id].by = "update_refresh_token"
  /\ issued[last.id].token = Some(last.token)
  /\ ~sessions[last.id].active
  /\ ~last.result

\* Complete of a playthrough of the caller whose stored status is `from`.
CompleteFrom(from) ==
  /\ last.op = "complete"
  /\ Owned(last.pre, last.user, last.id)
  /\ last.pre[last.id].status = Some(from)

\* The answer to the last Complete is 422 and the store is as it was.
Refused422 == last.code = 422 /\ pts = last.pre

\* The answer to the last Complete is 200 and the status is the type asked.
Completed200 ==
  last.code = 200 /\ pts[last.id].status = Some(last.req.completion_type)

StatusFields == {"status", "started_at", "completed_at"}

\* The last request is an Update of a playthrough of the caller that carries
\* a status of the enumeration and nothing else.
StatusOnlyUpdate ==
  /\ last.op = "update"
  /\ Owned(last.pre, last.user, last.id)
  /\ DOMAIN last.req = {"status"}
  /\ last.req.status # None

\* The last request is a bulk update_status of one playthrough of the
\* caller to a status of the enumeration.
StatusOnlyBulk ==
  /\ last.op = "bulk"
  /\ last.action = "update_status"
  /\ Len(last.ids) = 1
  /\ Owned(last.pre, last.user, last.ids[1])
  /\ last.data # None
  /\ DOMAIN last.data[1] = {"status"}
  /\ last.data[1].status # None
  /\ last.data[1].status[1] \in PlaythroughStatus

\* What the other path makes of the request the last one answered, on the
\* store the last one found: the bulk handler for an Update ...
TwinBulk ==
  BulkLoop(EmptySession, last.pre, last.user, "update_status",
           Some([status |-> last.req.status]), clock, <<last.id>>)

\* ... and the Update handler for a bulk request.
TwinUpdate ==
  UpdateOutcome(last.pre[last.ids[1]],
                model_dump([status |-> last.data[1].status]), clock)

\* C24: an Update carrying only `status` and a bulk update_status of that
\* one playthrough to that status are both accepted or both refused, and
\* when accepted store the same status, started_at and completed_at.
C24_UpdateAndBulkAgree ==
  /\ StatusOnlyUpdate =>
       LET acc == TwinBulk
           accepted == acc.failed = <<>> /\ CommitOk(acc)
       IN  /\ (last.code = 200) = accepted
           /\ accepted =>
                \A f \in StatusFields :
                  pts[last.id][f] = Committed(acc, last.pre)[last.id][f]
  /\ StatusOnlyBulk =>
       LET out == TwinUpdate
       IN  /\ (last.code = 200) = (out.code = 200)
           /\ out.code = 200 =>
                \A f \in StatusFields : pts[last.ids[1]][f] = out.rec[f]

\* A bulk update_status of one playthrough that stamped its started_at.
C24_Witness ==
  /\ StatusOnlyBulk
  /\ last.code = 200
  /\ last.data[1].status = Some("PLAYING")
  /\ last.pre[last.ids[1]].started_at = None
  /\ pts[last.ids[1]].started_at = Some(clock)

\* C25: every stored playthrough has play_time_hours unset or not negative,
\* whatever hours the bulk add_time requests carried.
C25_PlayTimeNotNegative ==
  \A pid \in DOMAIN pts :
    pts[pid].play_time_hours = None \/ pts[pid].play_time_hours[1] >= 0

----------------------------------------------------------------------------
(* Concurrent requests.                                                    *)

\* C26: whatever way concurrent Update, Complete and bulk update_status
\* requests interleave, a commit that changes the stored status of a
\* playthrough takes it along an edge of the table; a status committed as
\* MASTERED has no edge to leave by.
C26_LegalUnderInterleaving ==
  [][\A pid \in DOMAIN pts \cap DOMAIN pts' :
       pts'[pid].status # pts[pid].status =>
         <<pts[pid].status[1], pts'[pid].status[1]>> \in LegalEdges]_vars

\* No request is between its reads and its commit.
Quiet == \A w \in Workers : race[w].phase = "idle"

\* C27: once the add_time requests have ended, a playthrough created without
\* hours holds the sum of the hours those requests reported as added to
\* it, whether they ran one after the other, at the same time, or named
\* the playthrough twice.
C27_NoLostIncrement ==
  Quiet =>
    \A pid \in DOMAIN pts :
      (IF pts[pid].play_time_hours = None
         THEN 0 ELSE pts[pid].play_time_hours[1]) = credited[pid]

\* C28: a hard delete that ends with 200 removes an item no playthrough
\* referenced when it was removed, and no stored playthrough names a
\* collection item that is not stored, also when a create naming the item
\* commits between the count of the hard delete and its commit.
C28_ReferencedItemKept ==
  /\ (last.op = "item_delete" /\ last.hard /\ last.code = 200) =>
       Referencing(last.pre, last.id) = {}
  /\ \A p \in DOMAIN pts :
       pts[p].collection_id # None => pts[p].collection_id[1] \in DOMAIN items

----------------------------------------------------------------------------
(* Stored values.                                                          *)

\* C29: every stored playthrough has one of the six statuses, whatever
\* status the bulk update_status payloads carried and also after an Update
\* that sent status as null.
C29_StatusDomain ==
  \A pid \in DOMAIN pts :
    /\ pts[pid].status # None
    /\ pts[pid].status[1] \in PlaythroughStatus

\* An Update that sent status as null for a playthrough of its caller: the
\* commit is refused and nothing is stored.
C29_Witness ==
  /\ last.op = "update"
  /\ Owned(last.pre, last.user, last.id)
  /\ "status" \in DOMAIN last.req
  /\ last.req.status = None
  /\ last.code = 500
  /\ pts = last.pre

----------------------------------------------------------------------------
(* One outcome per target.                                                 *)

\* The ids of a list of reported entries, in the order of the list.
IdsOf(entries) == [i \in DOMAIN entries |-> entries[i].id]

\* How often pid is in the list.
Occurrences(seq, pid) == Cardinality({i \in DOMAIN seq : seq[i] = pid})

\* The list `part` is `whole` with some of its entries left out.
RECURSIVE InOrder(_, _)
InOrder(part, whole) ==
  IF part = <<>> THEN TRUE
  ELSE IF whole = <<>> THEN FALSE
  ELSE IF Head(part) = Head(whole)
    THEN InOrder(Tail(part), Tail(whole)) \/ InOrder(part, Tail(whole))
  ELSE InOrder(part, Tail(whole))

\* The failed entries of the last aggregate answer, none when the body has
\* no failed_items.
FailedItems ==
  IF "failed_items" \in DOMAIN last.body THEN last.body.failed_items ELSE <<>>

\* C30: in every aggregate answer updated_count + failed_count (0 when
\* absent) is the number of requested ids, every id has as many outcomes
\* as it has occurrences in the list, successes and failures are each in
\* request order, and a delete reports a playthrough of the caller deleted
\* once and "not found" for each further occurrence.
C30_OneOutcomePerId ==
  Aggregate =>
    LET b == last.body
        failed_count ==
          IF "failed_count" \in DOMAIN b THEN b.failed_count ELSE 0
        done == IdsOf(b.items)
        refused == IdsOf(FailedItems)
    IN  /\ b.updated_count + failed_count = Len(last.ids)
        /\ \A pid \in Range(last.ids) :
             Occurrences(done, pid) + Occurrences(refused, pid)
               = Occurrences(last.ids, pid)
        /\ InOrder(done, last.ids)
        /\ InOrder(refused, last.ids)
        /\ last.action = "delete" =>
             \A pid \in Range(last.ids) :
               Owned(last.pre, last.user, pid) =>
                 /\ Occurrences(done, pid) = 1
                 /\ \A j \in DOMAIN FailedItems :
                      FailedItems[j].id = pid =>
                        FailedItems[j].error = "not found"

====
